---------------------------- MODULE Spec2Model ----------------------------
(***************************************************************************)
(* Model of meteor-xray: xray.py (the report driver, main) and             *)
(* visualize.py (check_printable, print_align_table, xelatex, gnuplot,     *)
(* the tool checks).  alignment.py is not part of the sources at hand; the *)
(* definitions that stand for it (the record layout, rtl, the comparators, *)
(* extract_scores, get_score_dist, read_align_file) follow the design      *)
(* document and are marked as such.                                        *)
(*                                                                         *)
(* Numbers: a metric value v in [0,1] is the integer v * One (thousandths, *)
(* the precision the tables print with {:.3f}).  A colour channel of a     *)
(* table with N reference words is an integer number of units of           *)
(* 1 / Den(N), Den(N) = 40 * max(1, N), in which 0.6, 1.0 and every        *)
(* multiple of step = 0.4 / max(1, N) used by the loop are whole numbers.  *)
(* Python indices are 0-based; sequences here are 1-based and every index  *)
(* that is written to the output (ref0.., sen1_matched) is kept 0-based.   *)
(***************************************************************************)
EXTENDS Integers, Sequences, FiniteSets, TLC

VARIABLES
    \* ---- xray.py main() ----
    pc,             \* position in main()
    xelatex_ok,     \* os.path.exists(xelatex_cmd)
    gnuplot_ok,     \* os.path.exists(gnuplot_cmd)
    opt,            \* parsed options (compare, best_first, no_align, rtl) and #files
    exit_status,    \* -1 while running, else the process exit status
    pre_dir,        \* TRUE once <prefix>-files exists
    reads,          \* number of read_align_file calls made so far
    inputs,         \* what each read_align_file call returned, in call order
    seg_scores,     \* list of per-system score collections
    alignments,     \* the list being rendered (records, or pairs in compare mode)
    file_i,         \* outer loop index of the single-system branch (1-based)
    idx,            \* index of the render loop (1-based, next element to visit)
    tex_open,       \* TRUE while tex_out is open
    docs,           \* the .tex documents written so far; the last one is tex_out
    tmp_dirs,       \* number of mkdtemp() directories that still exist
    pdfs,           \* pdf files copied out by xelatex()
    dats,           \* statistics data files written (write_dat_file)
    \* ---- print_align_table / check_printable applied to drawn records ----
    t_pc, t_a1, t_a2, t_printable, t_table, t_prev

mvars == <<pc, xelatex_ok, gnuplot_ok, opt, exit_status, pre_dir, reads, inputs,
           seg_scores, alignments, file_i, idx, tex_open, docs, tmp_dirs, pdfs, dats>>
tvars == <<t_pc, t_a1, t_a2, t_printable, t_table, t_prev>>
vars == <<mvars, tvars>>

----------------------------------------------------------------------------
\* Program constants and bounds

MAX_LEN == 50
NO_MATCH == -1
One == 1000

MaxHyp == 2      \* longest hypothesis sentence drawn
MaxRef == 2      \* longest short reference drawn (MAX_LEN and MAX_LEN + 1 are always drawn)
MaxRecs == 2     \* most records read_align_file returns

None == <<>>
Some(a) == <<a>>
IsGiven(a2) == a2 # None        \* truthiness of an optional record: `if a2:`

Max(a, b) == IF a >= b THEN a ELSE b
Min(a, b) == IF a <= b THEN a ELSE b
Reverse(s) == [k \in 1..Len(s) |-> s[Len(s) + 1 - k]]

----------------------------------------------------------------------------
\* Alignment records (alignment.py: layout from the design document)

Kinds == {"ex", "ap", "rm"}

\* A hypothesis token / a reference token: sequences of characters.
HypTok(i) == IF i = 1 THEN <<"a", "_">> ELSE <<"b">>
RefTok(j, alt) == IF j = alt THEN <<"d", "$">> ELSE <<"t">>

MatrixCell(i, j, n2, rm) ==
    IF rm /\ i = 1 /\ j = n2 THEN "rm"
    ELSE IF j = i THEN "ex"
    ELSE IF j = i + 1 THEN "ap"
    ELSE ""

\* A record with n1 hypothesis words and n2 reference words; the reference
\* differs from the plain one at position alt (alt = 0: the plain reference);
\* rm puts a deleted mark in the matrix; st are its p, r, frag, score.
MkAlign(name, n1, n2, alt, rm, st) ==
    [name |-> name,
     sen1 |-> [i \in 1..n1 |-> HypTok(i)],
     sen2 |-> [j \in 1..n2 |-> RefTok(j, alt)],
     matrix |-> [i \in 1..n1 |-> [j \in 1..n2 |-> MatrixCell(i, j, n2, rm)]],
     sen1_matched |-> [i \in 1..n1 |->
                         IF i <= n2 /\ MatrixCell(i, i, n2, rm) \in {"ex", "ap"}
                         THEN i - 1 ELSE NO_MATCH],
     p |-> st.p, r |-> st.r, frag |-> st.frag, score |-> st.score,
     sen_len |-> n2]

\* rtl(): reverse both sentences and re-index matrix and sen1_matched.
rtl(a) ==
    LET n1 == Len(a.sen1)
        n2 == Len(a.sen2)
    IN  [a EXCEPT !.sen1 = Reverse(a.sen1),
                  !.sen2 = Reverse(a.sen2),
                  !.matrix = [i \in 1..n1 |-> [j \in 1..n2 |->
                                 a.matrix[n1 + 1 - i][n2 + 1 - j]]],
                  !.sen1_matched = [i \in 1..n1 |->
                                 IF a.sen1_matched[n1 + 1 - i] = NO_MATCH THEN NO_MATCH
                                 ELSE n2 - 1 - a.sen1_matched[n1 + 1 - i]]]

----------------------------------------------------------------------------
\* visualize.py

FILL == [ex |-> "\\mex", ap |-> "\\map", rm |-> "\\mrm"]
FILL_L == [ex |-> "\\lex", ap |-> "\\lap"]
FILL_R == [ex |-> "\\rex", ap |-> "\\rap"]

\* escape(s): '\' becomes '\backslash', each of $&%{}#_ gets a '\' in front.
EscapeChar(c) ==
    IF c = "\\" THEN "\\backslash"
    ELSE IF c \in {"$", "&", "%", "{", "}", "#", "_"} THEN "\\" \o c
    ELSE c
escape(s) == [k \in 1..Len(s) |-> EscapeChar(s[k])]

\* Faulty variant of check_printable: the length test is off by one, so a
\* reference of MAX_LEN words is refused.
check_printable_strict(a1, a2) ==
    IF Len(a1.sen2) >= MAX_LEN THEN FALSE
    ELSE IF IsGiven(a2) /\ a1.sen2 # a2[1].sen2 THEN FALSE
    ELSE TRUE

\* check_printable(a1, a2=None): False when the reference is too long, or when
\* a second record is given and the references differ.
check_printable(a1, a2) ==
    IF Len(a1.sen2) > MAX_LEN THEN FALSE
    ELSE IF IsGiven(a2) /\ a1.sen2 # a2[1].sen2 THEN FALSE
    ELSE TRUE

\* The colour loop of print_align_table, in units of 1 / Den(n): r, g, b
\* start at 0.6, 0.6, 1.0 and step = 0.4 / max(1, n) is 16 units.  Iteration
\* i adds (1.5, .25, -1.5) * step when i >= half = n / 2 and (.5, 1.0, -.5) *
\* step otherwise; ColorState is r, g, b after the iterations 0..k-1.
Den(n) == 40 * Max(1, n)
\* Faulty variant of ColorStep: step = 0.4, not divided by the number of words.
ColorStep_undivided(n) == 16 * Max(1, n)
ColorStep(n) == 16
UpperIters(n, k) == Cardinality({i \in 0..(k - 1) : 2 * i >= n})
LowerIters(n, k) == Cardinality({i \in 0..(k - 1) : ~(2 * i >= n)})
ColorState(n, k) ==
    LET step == ColorStep(n)
        hi == UpperIters(n, k)
        lo == LowerIters(n, k)
    IN  [r |-> 24 * Max(1, n) + hi * ((step * 3) \div 2) + lo * (step \div 2),
         g |-> 24 * Max(1, n) + hi * (step \div 4) + lo * step,
         b |-> 40 * Max(1, n) - hi * ((step * 3) \div 2) - lo * (step \div 2)]

\* The \definecolor lines, one per iteration of range(len(a1.sen2)): ref<i>
\* with min(1.0, .) applied to each channel.
ColorDecls(a1) ==
    LET n == Len(a1.sen2)
    IN  [k \in 1..n |->
            LET c == ColorState(n, k)
            IN  [ref |-> k - 1, den |-> Den(n),
                 r |-> Min(Den(n), c.r), g |-> Min(Den(n), c.g),
                 b |-> Min(Den(n), c.b)]]

\* The header row (sentence 2): one rotated, coloured cell per reference word.
HeaderRow(a1, a2) ==
    [legend |-> IsGiven(a2),
     words |-> [j \in 1..Len(a1.sen2) |-> [color |-> j - 1, word |-> escape(a1.sen2[j])]],
     symbols |-> IsGiven(a2)]

\* max_len = max(len(a1.sen1), len(a2.sen1)) if a2 else len(a1.sen1)
RowCount(a1, a2) ==
    IF IsGiven(a2) THEN Max(Len(a1.sen1), Len(a2[1].sen1)) ELSE Len(a1.sen1)

Fill1(a2) == IF IsGiven(a2) THEN FILL_L ELSE FILL
Fill2(a2) == FILL_R

\* The marks of cell (i, j): fill1[a1.matrix[i][j]] then fill2[a2.matrix[i][j]],
\* each only where the row exists in that sentence and the entry is not empty.
CellMarks(a1, a2, i, j) ==
    (IF i <= Len(a1.sen1) /\ a1.matrix[i][j] # ""
     THEN <<Fill1(a2)[a1.matrix[i][j]]>> ELSE <<>>)
    \o
    (IF IsGiven(a2) /\ i <= Len(a2[1].sen1) /\ a2[1].matrix[i][j] # ""
     THEN <<Fill2(a2)[a2[1].matrix[i][j]]>> ELSE <<>>)

\* Building cell (i, j) raises: a KeyError of a fill table, or an IndexError of
\* a2.matrix[i] when a2's reference is shorter than a1's.
CellRaises(a1, a2, i, j) ==
    \/ /\ i <= Len(a1.sen1)
       /\ a1.matrix[i][j] # ""
       /\ a1.matrix[i][j] \notin DOMAIN Fill1(a2)
    \/ /\ IsGiven(a2)
       /\ i <= Len(a2[1].sen1)
       /\ \/ j > Len(a2[1].sen2)
          \/ /\ a2[1].matrix[i][j] # ""
             /\ a2[1].matrix[i][j] \notin DOMAIN Fill2(a2)

RowRaises(a1, a2, i) == \E j \in 1..Len(a1.sen2) : CellRaises(a1, a2, i, j)

\* The label cell of a sentence's word i: empty beyond the sentence's end.
LabelCell(a, i) ==
    IF i <= Len(a.sen1)
    THEN <<[color |-> a.sen1_matched[i], tok |-> escape(a.sen1[i])]>>
    ELSE <<>>

TableRow(a1, a2, i) ==
    [left |-> LabelCell(a1, i),
     cells |-> [j \in 1..Len(a1.sen2) |-> CellMarks(a1, a2, i, j)],
     right |-> IF IsGiven(a2) THEN <<LabelCell(a2[1], i)>> ELSE <<>>]

\* The colour of a delta in the compare summary.
ColorUp(diff) == IF diff >= 0 THEN "gb" ELSE "rb"
\* Faulty variant of ColorFrag: fragmentation coloured like the other three.
ColorFrag_uninverted(diff) == IF diff >= 0 THEN "gb" ELSE "rb"
ColorFrag(diff) == IF diff > 0 THEN "rb" ELSE "gb"

Summary(a1, a2) ==
    IF IsGiven(a2)
    THEN LET b == a2[1]
         IN  <<[m |-> "P", v1 |-> a1.p, v2 |-> b.p, diff |-> b.p - a1.p,
                color |-> ColorUp(b.p - a1.p)],
               [m |-> "R", v1 |-> a1.r, v2 |-> b.r, diff |-> b.r - a1.r,
                color |-> ColorUp(b.r - a1.r)],
               [m |-> "Frag", v1 |-> a1.frag, v2 |-> b.frag, diff |-> b.frag - a1.frag,
                color |-> ColorFrag(b.frag - a1.frag)],
               [m |-> "Score", v1 |-> a1.score, v2 |-> b.score, diff |-> b.score - a1.score,
                color |-> ColorUp(b.score - a1.score)]>>
    ELSE <<[m |-> "P", v1 |-> a1.p], [m |-> "R", v1 |-> a1.r],
           [m |-> "Frag", v1 |-> a1.frag], [m |-> "Score", v1 |-> a1.score]>>

\* print_align_table(tex_out, a1, a2=None) with a_type = ALIGN_METEOR (the only
\* one xray.py uses): what it has printed when it returns or raises.  The
\* rows are printed one by one, so a row that raises leaves the rows before
\* it in the file and nothing after them; ok is FALSE when it raised.
print_align_table(a1, a2) ==
    LET max_len == RowCount(a1, a2)
        bad == {i \in 1..max_len : RowRaises(a1, a2, i)}
        stop == IF bad = {} THEN max_len + 1
                ELSE CHOOSE i \in bad : \A k \in bad : i <= k
    IN  [ok |-> bad = {},
         colors |-> ColorDecls(a1),
         ncols |-> Len(a1.sen2),
         right_col |-> IsGiven(a2),
         header |-> HeaderRow(a1, a2),
         rows |-> [i \in 1..(stop - 1) |-> TableRow(a1, a2, i)],
         name |-> IF bad = {} THEN <<escape(a1.name)>> ELSE <<>>,
         summary |-> IF bad = {} THEN Summary(a1, a2) ELSE <<>>]

\* check_xelatex() / check_gnuplot(): both test os.path.exists(xelatex_cmd).
check_xelatex == xelatex_ok
check_gnuplot == xelatex_ok

----------------------------------------------------------------------------
\* alignment.py (from the design document)

Sign(d) == IF d > 0 THEN 1 ELSE IF d < 0 THEN -1 ELSE 0

\* Comparators in cmp(x, y) form; "sorted descending" (reverse=True) puts the
\* largest score / best score / improvement first.
cmp_score(x, y) == Sign(x.score - y.score)
cmp_score_best(x, y) ==
    Sign(Max(x[1].score, x[2].score) - Max(y[1].score, y[2].score))
cmp_score_diff(x, y) ==
    Sign((x[2].score - x[1].score) - (y[2].score - y[1].score))

Cmp(key, x, y) ==
    CASE key = "score" -> cmp_score(x, y)
      [] key = "best" -> cmp_score_best(x, y)
      [] key = "diff" -> cmp_score_diff(x, y)

\* extract_scores(alignments): one ScoreSample per record.
extract_scores(as) ==
    [k \in 1..Len(as) |->
        [score |-> as[k].score, frag |-> as[k].frag, p |-> as[k].p, r |-> as[k].r,
         sen_len |-> as[k].sen_len]]

\* get_score_dist(values): ten buckets of width 0.1 over [0,1]; 1.0 falls in
\* the last one.
Bucket(v) == Min(9, (v * 10) \div One)
get_score_dist(values) ==
    [b \in 1..10 |-> Cardinality({k \in 1..Len(values) : Bucket(values[k]) = b - 1})]

----------------------------------------------------------------------------
\* xray.py

\* list.sort(key=cmp_to_key(cmp), reverse=True): a stable sort; with
\* reverse=True the list is reversed, sorted ascending and reversed again, so
\* elements that compare equal keep their original order.
RECURSIVE InsertSorted(_, _, _)
InsertSorted(key, s, x) ==
    \* x goes in front of the elements it is less than: K(x) < K(y) iff cmp(x, y) < 0
    IF s = <<>> THEN <<x>>
    ELSE IF ~(Cmp(key, x, s[Len(s)]) < 0) THEN Append(s, x)
    ELSE Append(InsertSorted(key, SubSeq(s, 1, Len(s) - 1), x), s[Len(s)])

RECURSIVE StableSort(_, _)
StableSort(key, s) ==
    IF s = <<>> THEN <<>>
    ELSE InsertSorted(key, StableSort(key, SubSeq(s, 1, Len(s) - 1)), s[Len(s)])

\* Faulty variant of SortReverse: sorted ascending and then reversed, so
\* equal elements change places.
SortReverse_unstable(key, s) == Reverse(StableSort(key, s))
SortReverse(key, s) == Reverse(StableSort(key, Reverse(s)))

\* zip(align_1, align_2): pairs up to the shorter list.
Zip(s1, s2) == [k \in 1..Min(Len(s1), Len(s2)) |-> <<s1[k], s2[k]>>]

\* The comparator the compare branch sorts with (line 120).
CompareKey(best_first) == IF best_first THEN "best" ELSE "diff"

\* eval('x.' + stat)
StatOf(x, stat) ==
    CASE stat = "score" -> x.score
      [] stat = "frag" -> x.frag
      [] stat = "p" -> x.p
      [] stat = "r" -> x.r

Stats == <<"score", "frag", "p", "r">>
\* The length ranges of "Scores by length": [lo, hi], hi = -1 for the open one.
Ranges == <<<<1, 10>>, <<11, 25>>, <<26, 50>>, <<51, -1>>>>

InRange(x, rg) == x.sen_len >= rg[1] /\ (rg[2] = -1 \/ x.sen_len <= rg[2])

\* The values handed to get_score_dist for one system (lines 193, 212, 214);
\* rg = <<>> is "all scores".
StatValues(scores, stat, rg) ==
    LET sel == IF rg = <<>> THEN scores
               ELSE SelectSeq(scores, LAMBDA x : InRange(x, rg))
    IN  [k \in 1..Len(sel) |-> StatOf(sel[k], stat)]

\* write_dat_file: a header with one column per system, ten bucket rows.
DatFile(stat, rg, segs) ==
    LET dists == [s \in 1..Len(segs) |-> get_score_dist(StatValues(segs[s], stat, rg))]
    IN  [stat |-> stat, range |-> rg, cols |-> Len(dists),
         rows |-> [b \in 1..10 |-> [s \in 1..Len(dists) |-> dists[s][b]]]]

AllDats(segs) == [k \in 1..Len(Stats) |-> DatFile(Stats[k], <<>>, segs)]
LenDats(segs) ==
    [k \in 1..(Len(Stats) * Len(Ranges)) |->
        DatFile(Stats[((k - 1) \div Len(Ranges)) + 1],
                Ranges[((k - 1) % Len(Ranges)) + 1], segs)]

\* seg_scores.append(extract_scores(alignments)): the whole list that was
\* read, before it is sorted or checked (lines 116-117, 155).
\* Faulty variant: only the records that will be rendered are scored.
AppendScores_printable(segs, as) ==
    Append(segs, extract_scores(SelectSeq(as, LAMBDA a : check_printable(a, None))))
AppendScores(segs, as) == Append(segs, extract_scores(as))

\* `if len(align_files) < 2` (line 107).  Faulty variant: one file is let through.
TooFewFiles_one(n) == n < 1
TooFewFiles(n) == n < 2

\* ---- the inputs of a run ----

Digit(k) == <<"0", "1", "2", "3", "4", "5", "6", "7", "8", "9">>[k + 1]
SegName(k) == <<"s", "_", Digit(k)>>

MStats(score) == [p |-> score, r |-> One - score, frag |-> One \div 5, score |-> score]

\* The segments an alignment file is made of: two with the same reference
\* (the first, of lower score, with a deleted mark in its matrix) and one,
\* of the second's score, whose reference is one word too long.
Pool(c, k) ==
    CASE c = 1 -> MkAlign(SegName(k), 2, 2, 0, TRUE, MStats(3 * (One \div 10)))
      [] c = 2 -> MkAlign(SegName(k), 1, 2, 0, FALSE, MStats(8 * (One \div 10)))
      [] c = 3 -> MkAlign(SegName(k), 1, MAX_LEN + 1, 0, FALSE, MStats(8 * (One \div 10)))
PoolIds == 1..3

RECURSIVE SeqsUpTo(_, _)
SeqsUpTo(S, n) ==
    IF n = 0 THEN {<<>>}
    ELSE LET shorter == SeqsUpTo(S, n - 1)
         IN  shorter \cup {Append(q, x) : q \in {t \in shorter : Len(t) = n - 1}, x \in S}

\* read_align_file(file, max_align): the records one call returns (the cap
\* max_align is applied inside it, before anything is rendered), named by
\* position.
FileContents == {[k \in 1..Len(q) |-> Pool(q[k], k)] : q \in SeqsUpTo(PoolIds, MaxRecs)}

NoOpt == [compare |-> FALSE, best_first |-> FALSE, no_align |-> FALSE, rtl |-> FALSE,
          nfiles |-> 0]

MainIdle ==
    /\ pc = "idle" /\ xelatex_ok = FALSE /\ gnuplot_ok = FALSE /\ opt = NoOpt
    /\ exit_status = -1 /\ pre_dir = FALSE /\ reads = 0 /\ inputs = <<>>
    /\ seg_scores = <<>> /\ alignments = <<>> /\ file_i = 0 /\ idx = 0
    /\ tex_open = FALSE /\ docs = <<>> /\ tmp_dirs = 0 /\ pdfs = {} /\ dats = <<>>

TableIdle ==
    /\ t_pc = "idle" /\ t_a1 = None /\ t_a2 = None /\ t_printable = FALSE
    /\ t_table = None /\ t_prev = None

Init ==
    /\ pc = "start"
    /\ xelatex_ok \in BOOLEAN
    /\ gnuplot_ok \in BOOLEAN
    /\ opt = NoOpt
    /\ exit_status = -1 /\ pre_dir = FALSE /\ reads = 0 /\ inputs = <<>>
    /\ seg_scores = <<>> /\ alignments = <<>> /\ file_i = 0 /\ idx = 0
    /\ tex_open = FALSE /\ docs = <<>> /\ tmp_dirs = 0 /\ pdfs = {} /\ dats = <<>>
    /\ TableIdle

\* sys.exit(1), or an exception that nothing catches: the process ends with
\* status 1 and whatever is open or on disk stays as it is.
Die(where) == pc' = where /\ exit_status' = 1

\* lines 38-39
CheckTools ==
    /\ pc = "start"
    /\ IF check_xelatex /\ check_gnuplot
       THEN pc' = "parse" /\ exit_status' = exit_status
       ELSE Die("exit")
    /\ UNCHANGED <<xelatex_ok, gnuplot_ok, opt, pre_dir, reads, inputs, seg_scores,
                   alignments, file_i, idx, tex_open, docs, tmp_dirs, pdfs, dats>>
    /\ UNCHANGED tvars

\* lines 70-83: the options and the list of alignment files
ParseArgs ==
    /\ pc = "parse"
    /\ \E c \in BOOLEAN, b \in BOOLEAN, n \in BOOLEAN, r \in BOOLEAN, nf \in 0..2 :
         /\ opt' = [compare |-> c, best_first |-> b, no_align |-> n, rtl |-> r,
                    nfiles |-> nf]
         /\ IF nf = 0 THEN Die("exit")
            ELSE pc' = "mkdir" /\ exit_status' = exit_status
    /\ UNCHANGED <<xelatex_ok, gnuplot_ok, pre_dir, reads, inputs, seg_scores,
                   alignments, file_i, idx, tex_open, docs, tmp_dirs, pdfs, dats>>
    /\ UNCHANGED tvars

\* lines 85-98: the labels, and os.mkdir(pre_dir) (an existing directory is kept)
MakeDir ==
    /\ pc = "mkdir"
    /\ pre_dir' = TRUE
    /\ pc' = IF opt.compare THEN "c_check" ELSE "s_next"
    /\ file_i' = 1
    /\ UNCHANGED <<xelatex_ok, gnuplot_ok, opt, exit_status, reads, inputs, seg_scores,
                   alignments, idx, tex_open, docs, tmp_dirs, pdfs, dats>>
    /\ UNCHANGED tvars

\* lines 105-109
CompareFileCheck ==
    /\ pc = "c_check"
    /\ IF TooFewFiles(opt.nfiles)
       THEN Die("exit")
       ELSE pc' = "c_read" /\ exit_status' = exit_status
    /\ UNCHANGED <<xelatex_ok, gnuplot_ok, opt, pre_dir, reads, inputs, seg_scores,
                   alignments, file_i, idx, tex_open, docs, tmp_dirs, pdfs, dats>>
    /\ UNCHANGED tvars

\* lines 114-122
CompareRead ==
    /\ pc = "c_read"
    /\ \E align_1 \in FileContents, align_2 \in FileContents :
         /\ reads' = reads + 2
         /\ inputs' = inputs \o <<align_1, align_2>>
         /\ seg_scores' = AppendScores(AppendScores(seg_scores, align_1), align_2)
         /\ alignments' = SortReverse(CompareKey(opt.best_first), Zip(align_1, align_2))
    /\ pc' = IF opt.no_align THEN "graph_all" ELSE "open"
    /\ UNCHANGED <<xelatex_ok, gnuplot_ok, opt, exit_status, pre_dir, file_i, idx,
                   tex_open, docs, tmp_dirs, pdfs, dats>>
    /\ UNCHANGED tvars

\* line 149: the next file of the single-system branch, or on to the graphs
SingleNext ==
    /\ pc = "s_next"
    /\ pc' = IF file_i <= opt.nfiles THEN "s_read" ELSE "graph_all"
    /\ UNCHANGED <<xelatex_ok, gnuplot_ok, opt, exit_status, pre_dir, reads, inputs,
                   seg_scores, alignments, file_i, idx, tex_open, docs, tmp_dirs, pdfs,
                   dats>>
    /\ UNCHANGED tvars

\* lines 154-158
SingleRead ==
    /\ pc = "s_read"
    /\ \E as \in FileContents :
         /\ reads' = reads + 1
         /\ inputs' = Append(inputs, as)
         /\ seg_scores' = AppendScores(seg_scores, as)
         /\ alignments' = SortReverse("score", as)
    /\ IF opt.no_align
       THEN pc' = "s_next" /\ file_i' = file_i + 1
       ELSE pc' = "open" /\ file_i' = file_i
    /\ UNCHANGED <<xelatex_ok, gnuplot_ok, opt, exit_status, pre_dir, idx, tex_open,
                   docs, tmp_dirs, pdfs, dats>>
    /\ UNCHANGED tvars

\* lines 124-130 / 160-165: open tex_out and print the document header
OpenTex ==
    /\ pc = "open"
    /\ tex_open' = TRUE
    /\ docs' = Append(docs, [compare |-> opt.compare, file |-> file_i,
                             tables |-> <<>>, footer |-> FALSE])
    /\ idx' = 1
    /\ pc' = "loop"
    /\ UNCHANGED <<xelatex_ok, gnuplot_ok, opt, exit_status, pre_dir, reads, inputs,
                   seg_scores, alignments, file_i, tmp_dirs, pdfs, dats>>
    /\ UNCHANGED tvars

\* The element the loop visits, after the in-place rtl() of lines 134-136 / 169-170.
Visited(e) ==
    IF opt.compare
    THEN IF opt.rtl THEN <<rtl(e[1]), rtl(e[2])>> ELSE e
    ELSE IF opt.rtl THEN rtl(e) ELSE e
First(e) == IF opt.compare THEN e[1] ELSE e
Second(e) == IF opt.compare THEN Some(e[2]) ELSE None

\* What the loop body does once the element is known printable or not
\* (lines 137-139 / 171-173): `continue`, or print the table.
LoopBody(e, printable) ==
    IF ~printable
    THEN /\ docs' = docs
         /\ idx' = idx + 1
         /\ pc' = pc /\ exit_status' = exit_status
    ELSE LET t == print_align_table(First(e), Second(e))
         IN  /\ docs' = [docs EXCEPT ![Len(docs)].tables = Append(@, t)]
             /\ IF t.ok
                THEN idx' = idx + 1 /\ pc' = pc /\ exit_status' = exit_status
                ELSE idx' = idx /\ Die("crashed")

\* lines 132-139 / 167-173: one iteration of the render loop
RenderStep ==
    /\ pc = "loop"
    /\ idx <= Len(alignments)
    /\ LET e == Visited(alignments[idx])
       IN  /\ alignments' = [alignments EXCEPT ![idx] = e]
           /\ LoopBody(e, check_printable(First(e), Second(e)))
    /\ UNCHANGED <<xelatex_ok, gnuplot_ok, opt, pre_dir, reads, inputs, seg_scores,
                   file_i, tex_open, tmp_dirs, pdfs, dats>>
    /\ UNCHANGED tvars

\* lines 141-143 / 175-177: the footer, and tex_out.close()
CloseTex ==
    /\ pc = "loop"
    /\ idx > Len(alignments)
    /\ docs' = [docs EXCEPT ![Len(docs)].footer = TRUE]
    /\ tex_open' = FALSE
    /\ pc' = "xelatex"
    /\ UNCHANGED <<xelatex_ok, gnuplot_ok, opt, exit_status, pre_dir, reads, inputs,
                   seg_scores, alignments, file_i, idx, tmp_dirs, pdfs, dats>>
    /\ UNCHANGED tvars

\* xelatex(tex_file, pdf_file, work_dir): mkdtemp, run the tool, copy the pdf
\* out and remove the directory.  When the tool leaves no pdf, copyfile
\* raises and rmtree is not reached.
xelatex(pdf_file, produced, after) ==
    IF produced
    THEN /\ pdfs' = pdfs \cup {pdf_file}
         /\ tmp_dirs' = (tmp_dirs + 1) - 1
         /\ after
    ELSE /\ pdfs' = pdfs
         /\ tmp_dirs' = tmp_dirs + 1
         /\ Die("crashed")

\* lines 146 / 180
CompileAlign ==
    /\ pc = "xelatex"
    /\ \E produced \in BOOLEAN :
         xelatex(<<"align", IF opt.compare THEN 0 ELSE file_i>>, produced,
                 /\ pc' = IF opt.compare THEN "graph_all" ELSE "s_next"
                 /\ exit_status' = exit_status)
    /\ file_i' = IF opt.compare THEN file_i ELSE file_i + 1
    /\ UNCHANGED <<xelatex_ok, gnuplot_ok, opt, pre_dir, reads, inputs, seg_scores,
                   alignments, idx, tex_open, docs, dats>>
    /\ UNCHANGED tvars

\* gnuplot(work_dir, plot_file): Popen raises when gnuplot_cmd does not exist.
\* A loop over data files writes each file and then plots it, so it gets as
\* far as the first file when the tool is missing.
GraphLoop(files, nextpc) ==
    IF gnuplot_ok
    THEN /\ dats' = dats \o files
         /\ pc' = nextpc /\ exit_status' = exit_status
    ELSE /\ dats' = Append(dats, files[1])
         /\ Die("crashed")

\* lines 187-197
GraphAll ==
    /\ pc = "graph_all"
    /\ GraphLoop(AllDats(seg_scores), "graph_len")
    /\ UNCHANGED <<xelatex_ok, gnuplot_ok, opt, pre_dir, reads, inputs, seg_scores,
                   alignments, file_i, idx, tex_open, docs, tmp_dirs, pdfs>>
    /\ UNCHANGED tvars

\* lines 200-219
GraphByLength ==
    /\ pc = "graph_len"
    /\ GraphLoop(LenDats(seg_scores), "score_pdf")
    /\ UNCHANGED <<xelatex_ok, gnuplot_ok, opt, pre_dir, reads, inputs, seg_scores,
                   alignments, file_i, idx, tex_open, docs, tmp_dirs, pdfs>>
    /\ UNCHANGED tvars

\* lines 222-228: the score report, then main returns
CompileScore ==
    /\ pc = "score_pdf"
    /\ \E produced \in BOOLEAN :
         xelatex(<<"score", 0>>, produced, pc' = "done" /\ exit_status' = 0)
    /\ UNCHANGED <<xelatex_ok, gnuplot_ok, opt, pre_dir, reads, inputs, seg_scores,
                   alignments, file_i, idx, tex_open, docs, dats>>
    /\ UNCHANGED tvars

Next ==
    \/ CheckTools
    \/ ParseArgs
    \/ MakeDir
    \/ CompareFileCheck
    \/ CompareRead
    \/ SingleNext
    \/ SingleRead
    \/ OpenTex
    \/ RenderStep
    \/ CloseTex
    \/ CompileAlign
    \/ GraphAll
    \/ GraphByLength
    \/ CompileScore

Spec == Init /\ [][Next]_vars

----------------------------------------------------------------------------
\* check_printable and print_align_table applied to drawn records, the way
\* both render loops apply them: the check first, the table only if it passed.

TStats(n1) ==
    IF n1 % 2 = 1
    THEN [p |-> 7 * (One \div 10), r |-> 3 * (One \div 10), frag |-> 2 * (One \div 10),
          score |-> 6 * (One \div 10)]
    ELSE [p |-> One \div 2, r |-> One \div 2, frag |-> One \div 2, score |-> One \div 2]

RefLens == (0..MaxRef) \cup {MAX_LEN, MAX_LEN + 1}

\* alt: the plain reference, or the one that differs in its last word
TableRecs ==
    UNION {{MkAlign(SegName(1), n1, n2, alt, rm, TStats(n1)) :
               n1 \in 0..MaxHyp, alt \in {0, n2}, rm \in BOOLEAN} : n2 \in RefLens}

\* The colour declarations of the table printed before this one, if any: a
\* single-system table of a record without hypothesis words.
PrevColors ==
    {None} \cup
    {Some(print_align_table(MkAlign(SegName(0), 0, n2, 0, FALSE, TStats(0)), None).colors) :
        n2 \in RefLens \ {MAX_LEN + 1}}

InitTable ==
    /\ MainIdle
    /\ t_pc = "input"
    /\ t_a1 \in TableRecs
    /\ t_a2 \in {None} \cup {Some(a) : a \in TableRecs}
    /\ t_printable = FALSE
    /\ t_table = None
    /\ t_prev \in PrevColors

CallCheckPrintable ==
    /\ t_pc = "input"
    /\ t_printable' = check_printable(t_a1, t_a2)
    /\ t_pc' = "checked"
    /\ UNCHANGED <<t_a1, t_a2, t_table, t_prev>>
    /\ UNCHANGED mvars

SkipRecord ==
    /\ t_pc = "checked"
    /\ ~t_printable
    /\ t_pc' = "skipped"
    /\ UNCHANGED <<t_a1, t_a2, t_printable, t_table, t_prev>>
    /\ UNCHANGED mvars

CallPrintAlignTable ==
    /\ t_pc = "checked"
    /\ t_printable
    /\ t_table' = Some(print_align_table(t_a1, t_a2))
    /\ t_pc' = IF print_align_table(t_a1, t_a2).ok THEN "printed" ELSE "raised"
    /\ UNCHANGED <<t_a1, t_a2, t_printable, t_prev>>
    /\ UNCHANGED mvars

NextTable ==
    \/ CallCheckPrintable
    \/ SkipRecord
    \/ CallPrintAlignTable

SpecTable == InitTable /\ [][NextTable]_vars

----------------------------------------------------------------------------
\* Properties of a run of xray.py (under Spec)

Ended == pc \in {"done", "exit", "crashed"}

\* The document tex_out is finished with: closed after the footer, or left
\* behind by an exception in the loop.
DocOver == pc = "xelatex" \/ (pc = "crashed" /\ tex_open)

\* Element k of the list as the loop sees it (rtl applied on the visit).
ElemAt(k) == IF k <= idx THEN alignments[k] ELSE Visited(alignments[k])
IsPrintable(e) == check_printable(First(e), Second(e))

\* C2: the tables written to a document are exactly the tables of the
\* elements of the sorted list that pass check_printable, in the list's
\* order, whatever the positions of the unprintable ones.
C2_TablesFollowSortedList ==
    DocOver =>
        LET all == [k \in 1..Len(alignments) |-> ElemAt(k)]
            pr == SelectSeq(all, IsPrintable)
            tables == docs[Len(docs)].tables
        IN  /\ Len(tables) = Len(pr)
            /\ \A k \in 1..Len(tables) :
                  /\ tables[k] = print_align_table(First(pr[k]), Second(pr[k]))
                  /\ tables[k].ok

RECURSIVE SumCol(_, _, _)
SumCol(rows, s, b) == IF b = 0 THEN 0 ELSE rows[b][s] + SumCol(rows, s, b - 1)

TablesIn(d) == Len(docs[d].tables)

\* C3: the score collections hold one sample per record read from each file,
\* in file order, from before the first check_printable call on; every
\* "all scores" data file counts every record of every system; and every
\* table in a document is the table of an element that passed the check.
C3_ScoresCountSkipped ==
    /\ Len(seg_scores) = Len(inputs)
    /\ \A s \in 1..Len(seg_scores) :
          /\ Len(seg_scores[s]) = Len(inputs[s])
          /\ \A k \in 1..Len(inputs[s]) : seg_scores[s][k].score = inputs[s][k].score
    /\ \A f \in 1..Len(dats) :
          dats[f].range = <<>> =>
              /\ dats[f].cols = Len(inputs)
              /\ \A s \in 1..Len(inputs) : SumCol(dats[f].rows, s, 10) = Len(inputs[s])
    /\ \A d \in 1..Len(docs) : \A k \in 1..TablesIn(d) :
          docs[d].tables[k].ncols <= MAX_LEN
    /\ pc \in {"loop", "xelatex"} =>
          \A n \in 1..TablesIn(Len(docs)) : \E k \in 1..(idx - 1) :
              /\ IsPrintable(alignments[k])
              /\ docs[Len(docs)].tables[n] =
                    print_align_table(First(alignments[k]), Second(alignments[k]))

\* C3 witness: a single-system run that skipped a record has written its
\* statistics.
C3_Witness ==
    /\ pc = "done"
    /\ ~opt.compare
    /\ Len(docs) = 1
    /\ Len(inputs[1]) = 2
    /\ TablesIn(1) = 1
    /\ Len(dats) > 0

ScoreOf(t) == t.summary[4].v1
\* The position in its file of the record a single-system table shows.
PosOf(t, d) ==
    CHOOSE k \in 1..Len(inputs[docs[d].file]) :
        <<escape(inputs[docs[d].file][k].name)>> = t.name

\* C4: the tables of a single-system document are in descending order of
\* score, and of two records with the same score the one that came first in
\* the file comes first.
C4_SingleSortedStable ==
    \A d \in 1..Len(docs) :
        ~docs[d].compare =>
            \A k \in 1..TablesIn(d) :
                /\ docs[d].tables[k].ok
                /\ k < TablesIn(d) =>
                      LET a == docs[d].tables[k]
                          b == docs[d].tables[k + 1]
                      IN  /\ ScoreOf(a) >= ScoreOf(b)
                          /\ ScoreOf(a) = ScoreOf(b) => PosOf(a, d) < PosOf(b, d)

\* C4 witness: a finished document shows two records of the same score.
C4_Witness ==
    /\ ~opt.compare
    /\ pc = "xelatex"
    /\ TablesIn(Len(docs)) = 2
    /\ ScoreOf(docs[Len(docs)].tables[1]) = ScoreOf(docs[Len(docs)].tables[2])

DiffOf(e) == e[2].score - e[1].score
DescByDiff(s) == \A k \in 1..(Len(s) - 1) : DiffOf(s[k]) >= DiffOf(s[k + 1])
AscByDiff(s) == \A k \in 1..(Len(s) - 1) : DiffOf(s[k]) <= DiffOf(s[k + 1])

\* C5: in compare mode the pairs are in the order of cmp_score_diff with or
\* without --best-first; with it they are sorted by the improvement of
\* system 2 over system 1, best improvement first.
C5_AlwaysByDiff ==
    (opt.compare /\ reads = 2) =>
        /\ DescByDiff(alignments) \/ AscByDiff(alignments)
        /\ opt.best_first => DescByDiff(alignments)

\* C6: a comparison asked for with fewer than two files ends with a non-zero
\* status, and nothing was read, written to a document or plotted before.
C6_TooFewFilesAborts ==
    (opt.compare /\ opt.nfiles < 2 /\ pc \notin {"start", "parse"}) =>
        /\ reads = 0 /\ inputs = <<>> /\ seg_scores = <<>>
        /\ docs = <<>> /\ ~tex_open
        /\ dats = <<>> /\ pdfs = {} /\ tmp_dirs = 0
        /\ \/ pc \in {"mkdir", "c_check"} /\ exit_status = -1
           \/ pc = "exit" /\ exit_status = 1

\* C6 witness: the run with one file has ended at the file check.
C6_Witness ==
    /\ opt.compare
    /\ opt.nfiles = 1
    /\ pre_dir
    /\ pc = "exit"
    /\ exit_status = 1

\* C7: however the run ends, no temporary directory of xelatex() is left
\* and tex_out is not open.
C7_HandlesReleased == Ended => (tmp_dirs = 0 /\ ~tex_open)

\* C12: the tool check lets the run go on only if both tools are there:
\* once it has been made, either xelatex and gnuplot both exist, or the run
\* has ended there with status 1, nothing read and nothing written.
C12_BothToolsOrExit ==
    pc # "start" =>
        \/ xelatex_ok /\ gnuplot_ok
        \/ /\ pc = "exit" /\ exit_status = 1
           /\ reads = 0 /\ ~pre_dir /\ docs = <<>> /\ dats = <<>>

----------------------------------------------------------------------------
\* Properties of check_printable and print_align_table (under SpecTable)

TableChecked == t_pc \in {"checked", "skipped", "printed", "raised"}

SameTokens(s, t) == Len(s) = Len(t) /\ \A j \in 1..Len(s) : s[j] = t[j]

\* C1: check_printable(a1, a2) is true exactly when a1's reference has at most
\* MAX_LEN (50) words and, if a2 is given, both references agree word for
\* word; so 50 words pass, 51 do not, and one differing word refuses a pair.
C1_CheckPrintable ==
    TableChecked =>
        /\ t_printable <=>
              /\ Len(t_a1.sen2) <= 50
              /\ t_a2 # None => SameTokens(t_a1.sen2, t_a2[1].sen2)
        /\ Len(t_a1.sen2) = 51 => ~t_printable
        /\ (Len(t_a1.sen2) = 50 /\ t_a2 = None) => t_printable

\* C1 witness: a pair with a 50-word reference has been accepted.
C1_Witness ==
    /\ t_pc = "checked"
    /\ t_a2 # None
    /\ Len(t_a1.sen2) = MAX_LEN
    /\ t_printable

InUnit(x, den) == 0 <= x /\ x <= den

\* C8: a table of a record with N reference words declares exactly N colours,
\* ref0..ref{N-1}, every channel within [0,1]; a table printed before it for
\* the same N declared the same colours; N = 0 declares none.
C8_ColorGradient ==
    t_table # None =>
        LET cs == t_table[1].colors
            n == Len(t_a1.sen2)
        IN  /\ Len(cs) = n
            /\ \A k \in 1..Len(cs) :
                  /\ cs[k].ref = k - 1
                  /\ InUnit(cs[k].r, cs[k].den)
                  /\ InUnit(cs[k].g, cs[k].den)
                  /\ InUnit(cs[k].b, cs[k].den)
            /\ (t_prev # None /\ Len(t_prev[1]) = n) => t_prev[1] = cs
            /\ n = 0 => cs = <<>>

\* C8 witness: a table with MAX_LEN reference words was printed after another
\* of the same width.
C8_Witness ==
    /\ t_pc = "printed"
    /\ Len(t_a1.sen2) = MAX_LEN
    /\ Len(t_a1.sen1) > 0
    /\ t_prev # None
    /\ Len(t_prev[1]) = MAX_LEN

MarksOf(fill) == {fill[k] : k \in DOMAIN fill}

\* C9: print_align_table emits max(len(a1.sen1), len(a2.sen1)) rows in compare
\* mode and len(a1.sen1) rows in single mode; a row beyond the end of one
\* sentence is still there, with that system's label cell and marks empty;
\* every row has one cell per reference word.
C9_RowCount ==
    t_table # None =>
        LET t == t_table[1]
            n1 == Len(t_a1.sen1)
            n2 == IF t_a2 # None THEN Len(t_a2[1].sen1) ELSE 0
        IN  /\ Len(t.rows) = IF t_a2 # None THEN Max(n1, n2) ELSE n1
            /\ \A i \in 1..Len(t.rows) :
                  /\ Len(t.rows[i].cells) = Len(t_a1.sen2)
                  /\ i > n1 =>
                        /\ t.rows[i].left = <<>>
                        /\ \A j \in 1..Len(t.rows[i].cells) :
                              \A m \in 1..Len(t.rows[i].cells[j]) :
                                  t.rows[i].cells[j][m] \in MarksOf(FILL_R)
                  /\ (t_a2 # None /\ i > n2) =>
                        /\ t.rows[i].right = <<<<>>>>
                        /\ \A j \in 1..Len(t.rows[i].cells) :
                              \A m \in 1..Len(t.rows[i].cells[j]) :
                                  t.rows[i].cells[j][m] \notin MarksOf(FILL_R)

\* C10: in single and in compare mode print_align_table completes, and every
\* cell whose matrix entry carries a match kind (exact, stem/synonym/
\* paraphrase, deleted) holds a marker for it: one per system that has an
\* entry there.
KindAt(a, i, j) == IF i <= Len(a.sen1) THEN a.matrix[i][j] ELSE ""
C10_EveryKindMarked ==
    t_table # None =>
        LET t == t_table[1]
        IN  /\ t.ok
            /\ \A i \in 1..RowCount(t_a1, t_a2) : \A j \in 1..Len(t_a1.sen2) :
                  /\ i <= Len(t.rows)
                  /\ Len(t.rows[i].cells[j]) =
                        (IF KindAt(t_a1, i, j) \in Kinds THEN 1 ELSE 0)
                        + (IF t_a2 # None /\ KindAt(t_a2[1], i, j) \in Kinds THEN 1 ELSE 0)

\* The value of metric m ("P", "R", "Frag", "Score") in a record.
MetricOf(a, m) ==
    IF m = "P" THEN a.p ELSE IF m = "R" THEN a.r
    ELSE IF m = "Frag" THEN a.frag ELSE a.score

\* System 2 is strictly worse than system 1 on metric m: a lower P, R or
\* Score, a higher Frag.
Sys2Worse(a1, a2, m) ==
    IF m = "Frag" THEN MetricOf(a2, m) > MetricOf(a1, m)
    ELSE MetricOf(a2, m) < MetricOf(a1, m)

\* C11: the compare summary has the four rows P, R, Frag, Score; each shows
\* both values and the delta system 2 minus system 1, coloured red (rb)
\* exactly when system 2 is strictly worse on that metric (delta < 0 for P, R
\* and Score, delta > 0 for Frag) and green (gb) otherwise.
C11_DeltaColors ==
    (t_pc = "printed" /\ t_a2 # None) =>
        LET sm == t_table[1].summary
            b == t_a2[1]
        IN  /\ [k \in 1..Len(sm) |-> sm[k].m] = <<"P", "R", "Frag", "Score">>
            /\ \A k \in 1..Len(sm) :
                  /\ sm[k].diff = MetricOf(b, sm[k].m) - MetricOf(t_a1, sm[k].m)
                  /\ sm[k].color \in {"rb", "gb"}
                  /\ sm[k].color = "rb" <=> Sys2Worse(t_a1, b, sm[k].m)
                  /\ sm[k].color = "rb" <=>
                        IF sm[k].m = "Frag" THEN sm[k].diff > 0 ELSE sm[k].diff < 0

\* A printed compare summary in which system 2 has the lower fragmentation
\* (green on a negative delta) and is worse on another metric (red on a
\* negative delta), and one metric improves (green on a positive delta).
C11_Witness ==
    /\ t_pc = "printed" /\ t_a2 # None
    /\ LET sm == t_table[1].summary
       IN  /\ Len(sm) = 4
           /\ sm[3].m = "Frag" /\ sm[3].diff < 0 /\ sm[3].color = "gb"
           /\ \E k \in {1, 2, 4} : sm[k].diff < 0 /\ sm[k].color = "rb"
           /\ \E k \in {1, 2, 4} : sm[k].diff > 0 /\ sm[k].color = "gb"

=============================================================================
